---- MODULE Spec2Model ----
(***************************************************************************)
(* Model of DIM's loadout-optimizer process wrapper                        *)
(* (src/app/loadout-builder/process/process-wrapper.ts):                   *)
(*   - runProcess / createWorker: the life cycle of one worker dispatch,   *)
(*     its cleanup handle and its resultPromise;                           *)
(*   - mapItemsToGroups: dominance pruning and grouping of armor items;    *)
(* of the loadout drawer's addItem, as its tests                           *)
(* (src/app/loadout-drawer/loadout-drawer-reducer.test.ts) describe it;    *)
(* and of the long-press handling of StoreInventoryItem                    *)
(* (src/app/inventory/StoreInventoryItem.tsx).                             *)
(***************************************************************************)
EXTENDS Integers, Sequences, FiniteSets, TLC

\* ------------------------------------------------------------------------
\* Bounds
\* ------------------------------------------------------------------------
MaxDispatch == 2
MaxCleanupCalls == 2
MaxItems == 3
MaxTimers == 3

VARIABLES
  disp,        \* dispatch id -> state of that runProcess call
  current,     \* the caller's cleanup handle (0 = none): id of the last dispatch
  nextId,      \* id of the next dispatch to create
  items,       \* mapItemsToGroups: the input items (mappedItems), by position
  requiredModTags, \* mapItemsToGroups: tags required by the activity mods
  pc,          \* mapItemsToGroups: "idle", "prune" or "done"
  bucketIdx,   \* index of the first-pass group being processed
  itemIdx,     \* position in that group of the next item of the pruning loop
  keepSet,     \* keepSet of the group being processed (item positions)
  groups,      \* the output ItemGroups built so far
  loadout,     \* addItem: loadout.items, a sequence of [id, equip]
  lastAdd,     \* addItem: the last call, with loadout.items before it
  longPressed, \* StoreInventoryItem: longPressed.current
  timer,       \* StoreInventoryItem: timer.current (0 before the first timer)
  pending,     \* the timeouts that are set and have neither fired nor been cleared
  nextTimer,   \* the id window.setTimeout returns next
  mobileInspect, \* an item is shown by showMobileInspect
  dragGhost,   \* an item is shown by showDragGhost
  loadoutDialogOpen,  \* the loadout dialog is open
  compareDialogOpen,  \* CompareService.dialogOpen
  isPhonePortrait,    \* isPhonePortraitSelector
  touching,    \* a touch of the item is in progress
  touchTimer,  \* the timer started by the touchstart of the touch in progress (0 = none)
  aborted,     \* timers whose touch moved, ended or was cancelled while they were pending
  fired,       \* timers whose callback ran
  inspectBy    \* timers whose callback showed the mobile inspect

dispVars == <<disp, current, nextId>>
groupVars == <<items, requiredModTags, pc, bucketIdx, itemIdx, keepSet, groups>>
loadoutVars == <<loadout, lastAdd>>
touchVars == <<longPressed, timer, pending, nextTimer, mobileInspect, dragGhost,
               loadoutDialogOpen, compareDialogOpen, isPhonePortrait, touching,
               touchTimer, aborted, fired, inspectBy>>
vars == <<disp, current, nextId, items, requiredModTags, pc, bucketIdx, itemIdx,
          keepSet, groups, loadout, lastAdd, longPressed, timer, pending, nextTimer,
          mobileInspect, dragGhost, loadoutDialogOpen, compareDialogOpen,
          isPhonePortrait, touching, touchTimer, aborted, fired, inspectBy>>

DispatchIds == 1..MaxDispatch

\* ------------------------------------------------------------------------
\* runProcess: state of one dispatch
\* ------------------------------------------------------------------------
\* A dispatch that has not been created yet.
NoDispatch ==
  [ instance      |-> "none",     \* the Worker: none / alive / terminated
    job           |-> "none",     \* worker side of process(): none / running / done
    response      |-> "none",     \* response message in flight: none / ok / err
    proc          |-> "pending",  \* the promise returned by worker.process(...)
    thenP         |-> "pending",  \* the promise returned by .then(...)
    finallyRan    |-> FALSE,      \* the .finally callback has run
    cleanupRef    |-> FALSE,      \* cleanupRef is set (TRUE) or undefined (FALSE)
    resultPromise |-> "pending",  \* pending / resolved / rejected
    released      |-> 0,          \* history: executions of releaseProxy + terminate
    settles       |-> 0,          \* history: settlements of resultPromise
    cleanupCalls  |-> 0,          \* history: invocations of cleanup()
    callerCalls   |-> 0,          \* history: cleanup() invocations made by the caller
    cancelledEarly |-> FALSE ]    \* history: caller released before the worker completed

\* createWorker().cleanup: worker[releaseProxy](); instance.terminate()
cleanupWorker(r) ==
  [r EXCEPT !.instance = "terminated", !.released = @ + 1]

\* Mutant of cleanup: forgets to clear cleanupRef.
cleanupKeepsRef(r) ==
  [(IF r.cleanupRef THEN cleanupWorker(r) ELSE r) EXCEPT !.cleanupCalls = @ + 1]

\* Mutant of cleanup: clears the reference without releasing the worker.
cleanupNoRelease(r) ==
  [r EXCEPT !.cleanupRef = FALSE, !.cleanupCalls = @ + 1]

\* runProcess.cleanup: cleanupRef?.(); cleanupRef = undefined
cleanup(r) ==
  [(IF r.cleanupRef THEN cleanupWorker(r) ELSE r)
     EXCEPT !.cleanupRef = FALSE, !.cleanupCalls = @ + 1]

\* cleanup() as invoked by the caller through the returned handle.
callerCleanup(r) ==
  [cleanup(r) EXCEPT !.callerCalls = @ + 1,
                     !.cancelledEarly = @ \/ (r.cleanupRef /\ r.job = "running")]

\* runProcess: createWorker, cleanupRef = cleanupWorker, worker.process(...) sent.
runProcess ==
  [NoDispatch EXCEPT !.instance = "alive", !.cleanupRef = TRUE, !.job = "running"]

\* ------------------------------------------------------------------------
\* Actions of the dispatcher
\* ------------------------------------------------------------------------
\* The caller starts a new search: it releases the dispatch it still holds,
\* then calls runProcess.
CallerDispatch ==
  /\ nextId <= MaxDispatch
  /\ disp' = [d \in DispatchIds |->
                IF d = nextId THEN runProcess
                ELSE IF d = current THEN callerCleanup(disp[d])
                ELSE disp[d]]
  /\ current' = nextId
  /\ nextId' = nextId + 1
  /\ UNCHANGED <<groupVars, loadoutVars, touchVars>>

\* The caller invokes the cleanup handle of a dispatch it obtained earlier.
CallerCleanup(d) ==
  /\ disp[d].instance # "none"
  /\ disp[d].callerCalls < MaxCleanupCalls
  /\ disp' = [disp EXCEPT ![d] = callerCleanup(@)]
  /\ UNCHANGED <<current, nextId, groupVars, loadoutVars, touchVars>>

\* The worker finishes process() and posts its result.
WorkerReturn(d) ==
  /\ disp[d].instance = "alive"
  /\ disp[d].job = "running"
  /\ disp' = [disp EXCEPT ![d].job = "done", ![d].response = "ok"]
  /\ UNCHANGED <<current, nextId, groupVars, loadoutVars, touchVars>>

\* process() throws in the worker; the failure is posted back.
WorkerThrow(d) ==
  /\ disp[d].instance = "alive"
  /\ disp[d].job = "running"
  /\ disp' = [disp EXCEPT ![d].job = "done", ![d].response = "err"]
  /\ UNCHANGED <<current, nextId, groupVars, loadoutVars, touchVars>>

\* The response reaches the main thread and settles worker.process(...).
DeliverResponse(d) ==
  /\ disp[d].response # "none"
  /\ disp' = [disp EXCEPT ![d].response = "none",
                          ![d].proc = IF disp[d].response = "ok"
                                      THEN "fulfilled" ELSE "rejected"]
  /\ UNCHANGED <<current, nextId, groupVars, loadoutVars, touchVars>>

\* A response still in flight when the worker is terminated may be discarded.
DropResponse(d) ==
  /\ disp[d].response # "none"
  /\ disp[d].instance = "terminated"
  /\ disp' = [disp EXCEPT ![d].response = "none"]
  /\ UNCHANGED <<current, nextId, groupVars, loadoutVars, touchVars>>

\* .then((result) => { ...; resolve({...}) })
thenHandler(r) ==
  [r EXCEPT !.thenP = "fulfilled",
            !.resultPromise = IF @ = "pending" THEN "resolved" ELSE @,
            !.settles = IF r.resultPromise = "pending" THEN @ + 1 ELSE @]

ThenHandler(d) ==
  /\ disp[d].proc = "fulfilled"
  /\ disp[d].thenP = "pending"
  /\ disp' = [disp EXCEPT ![d] = thenHandler(@)]
  /\ UNCHANGED <<current, nextId, groupVars, loadoutVars, touchVars>>

\* worker.process rejected: .then has no rejection handler, the rejection
\* passes through to the promise .then returned.
thenRejected(r) ==
  [r EXCEPT !.thenP = "rejected"]

ThenRejected(d) ==
  /\ disp[d].proc = "rejected"
  /\ disp[d].thenP = "pending"
  /\ disp' = [disp EXCEPT ![d] = thenRejected(@)]
  /\ UNCHANGED <<current, nextId, groupVars, loadoutVars, touchVars>>

\* Mutant of finallyHandler: cleans up only after a successful result.
finallyOnlyOnSuccess(r) ==
  [(IF r.thenP = "fulfilled" THEN cleanup(r) ELSE r) EXCEPT !.finallyRan = TRUE]

\* .finally(() => { cleanup(); })
finallyHandler(r) ==
  [cleanup(r) EXCEPT !.finallyRan = TRUE]

FinallyHandler(d) ==
  /\ disp[d].thenP # "pending"
  /\ ~disp[d].finallyRan
  /\ disp' = [disp EXCEPT ![d] = finallyHandler(@)]
  /\ UNCHANGED <<current, nextId, groupVars, loadoutVars, touchVars>>

DispInit ==
  /\ disp = [d \in DispatchIds |-> NoDispatch]
  /\ current = 0
  /\ nextId = 1

\* ------------------------------------------------------------------------
\* mapItemsToGroups
\* ------------------------------------------------------------------------
Range(s) == {s[k] : k \in 1..Len(s)}

\* resolvedStatConstraints: the ordered list of constrained stat hashes.
resolvedStatConstraints == <<1>>
NStats == Len(resolvedStatConstraints)

\* The values the inputs are drawn from: stat hashes and stat values of a
\* ProcessItem, remaining energy capacities, mod tags, hashes of exotics.
StatHashes == Range(resolvedStatConstraints)
StatValues == {0, 1}
EnergyValues == {0, 1}
Tags == {1}
ExoticHashes == {1}

\* hash and exoticness of an item: legendaries (hash 0) and the exotics
ItemKinds ==
  {[hash |-> 0, isExotic |-> FALSE]} \cup
  {[hash |-> h, isExotic |-> TRUE] : h \in ExoticHashes}

\* The fields of a DimItem that the comparator of a group reads.
DefaultDimFields ==
  [dimEnergy |-> 0, vendor |-> FALSE, favorite |-> FALSE, power |-> 0,
   equipped |-> FALSE]

\* The number of properties in which an item differs from a plain legendary
\* (no stats, no energy, not artifice, no mod tags).
Traits(it) ==
  (IF it.isExotic THEN 1 ELSE 0) + Cardinality({k \in StatHashes : it.stats[k] > 0})
    + (IF it.energy > 0 THEN 1 ELSE 0) + (IF it.isArtifice THEN 1 ELSE 0)
    + Cardinality(it.compat)

\* A MappedItem: the ProcessItem fields mapItemsToGroups reads, and the DimItem's.
\* The inputs are the items that differ from a plain legendary in at most two
\* properties.
MappedItems ==
  {it \in [hash : {0} \cup ExoticHashes, isExotic : BOOLEAN,
           stats : [StatHashes -> StatValues], energy : EnergyValues,
           isArtifice : BOOLEAN, compat : SUBSET Tags, dim : {DefaultDimFields}] :
     /\ [hash |-> it.hash, isExotic |-> it.isExotic] \in ItemKinds
     /\ Traits(it) \in {0, 1, 2}}

\* Inputs that tell the exotics apart: legendaries and two different exotics
\* that agree on everything else but the stats and the energy capacity.
ExoticMappedItems ==
  {[hash |-> k.hash, isExotic |-> k.isExotic, stats |-> st, energy |-> e,
    isArtifice |-> FALSE, compat |-> {}, dim |-> DefaultDimFields] :
     k \in {[hash |-> 0, isExotic |-> FALSE], [hash |-> 1, isExotic |-> TRUE],
            [hash |-> 2, isExotic |-> TRUE]},
     st \in [StatHashes -> StatValues], e \in EnergyValues}

\* The DimItem fields of the inputs of the comparator: energy capacity of the
\* item, vendor item or owned, tagged favorite, power, equipped; at most two
\* of them differ from the default.
DimFields ==
  {df \in [dimEnergy : {0, 1}, vendor : BOOLEAN, favorite : BOOLEAN, power : {0, 1},
           equipped : BOOLEAN] :
     Cardinality({f \in DOMAIN df : df[f] # DefaultDimFields[f]}) \in {0, 1, 2}}

\* Inputs that one group holds: plain legendaries that differ in the DimItem
\* fields only.
SortMappedItems ==
  {[hash |-> 0, isExotic |-> FALSE, stats |-> [k \in StatHashes |-> 0], energy |-> 0,
    isArtifice |-> FALSE, compat |-> {}, dim |-> df] : df \in DimFields}

ItemIds == 1..Len(items)

RECURSIVE SortedSeq(_)
\* Array.prototype.sort on the tag names
SortedSeq(S) ==
  IF S = {} THEN <<>>
  ELSE LET m == CHOOSE x \in S : \A y \in S : x <= y
       IN <<m>> \o SortedSeq(S \ {m})

RECURSIVE JoinComma(_)
\* Array.prototype.toString: the elements joined by ","
JoinComma(s) ==
  IF Len(s) = 0 THEN ""
  ELSE IF Len(s) = 1 THEN ToString(s[1])
  ELSE ToString(s[1]) \o "," \o JoinComma(Tail(s))

\* Mutant of firstPassGroupingFn: the hash of an exotic is left out of the key.
firstPassGroupingFnNoHash(it) ==
  IF it.isExotic THEN "exotic-" ELSE "legendary-"

\* firstPassGroupingFn
firstPassGroupingFn(it) ==
  IF it.isExotic THEN ToString(it.hash) \o "-" ELSE "legendary-"

\* cache.get(item): the worker-relevant information of item i
cache(i) ==
  [stats |-> [k \in 1..NStats |-> items[i].stats[resolvedStatConstraints[k]]],
   energyCapacity |-> items[i].energy,
   relevantModSeasons |-> {t \in items[i].compat : t \in requiredModTags},
   isArtifice |-> items[i].isArtifice]

\* finalGroupingFn
finalGroupingFn(i) ==
  JoinComma(cache(i).stats) \o "-" \o ToString(cache(i).energyCapacity) \o "-"
    \o JoinComma(SortedSeq(cache(i).relevantModSeasons))

RECURSIVE DistinctKeys(_, _)
\* the keys of a groupBy result, in order of first appearance
DistinctKeys(ks, seen) ==
  IF ks = <<>> THEN <<>>
  ELSE IF Head(ks) \in seen THEN DistinctKeys(Tail(ks), seen)
  ELSE <<Head(ks)>> \o DistinctKeys(Tail(ks), seen \cup {Head(ks)})

\* Object.groupBy(mappedItems, firstPassGroupingFn): Object.values(energyGroups)
energyGroups ==
  LET all == [i \in 1..Len(items) |-> i]
      keyOf(i) == firstPassGroupingFn(items[i])
      keys == DistinctKeys([i \in 1..Len(items) |-> keyOf(i)], {})
  IN [b \in 1..Len(keys) |-> SelectSeq(all, LAMBDA i : keyOf(i) = keys[b])]

\* isSuperset(test, existing)
isSuperset(test, existing) == \A v \in existing : v \in test

\* Mutant of isStrictlyBetter: the energy capacity is left out of isDifferent.
isStrictlyBetterEnergyForgotten(testItem, existingItem) ==
  LET testInfo == cache(testItem)
      existingInfo == cache(existingItem)
      betterOrEqual ==
        /\ \A idx \in 1..NStats : testInfo.stats[idx] >= existingInfo.stats[idx]
        /\ testInfo.energyCapacity >= existingInfo.energyCapacity
        /\ (items[testItem].isArtifice \/ ~existingInfo.isArtifice)
        /\ isSuperset(testInfo.relevantModSeasons, existingInfo.relevantModSeasons)
      isDifferent ==
        \/ \E idx \in 1..NStats : testInfo.stats[idx] # existingInfo.stats[idx]
        \/ testInfo.isArtifice # existingInfo.isArtifice
        \/ Cardinality(testInfo.relevantModSeasons)
             # Cardinality(existingInfo.relevantModSeasons)
  IN IF ~betterOrEqual THEN FALSE ELSE isDifferent

\* Mutant of isStrictlyBetter: the artifice flag is left out of isDifferent.
isStrictlyBetterArtificeForgotten(testItem, existingItem) ==
  LET testInfo == cache(testItem)
      existingInfo == cache(existingItem)
      betterOrEqual ==
        /\ \A idx \in 1..NStats : testInfo.stats[idx] >= existingInfo.stats[idx]
        /\ testInfo.energyCapacity >= existingInfo.energyCapacity
        /\ (items[testItem].isArtifice \/ ~existingInfo.isArtifice)
        /\ isSuperset(testInfo.relevantModSeasons, existingInfo.relevantModSeasons)
      isDifferent ==
        \/ \E idx \in 1..NStats : testInfo.stats[idx] # existingInfo.stats[idx]
        \/ testInfo.energyCapacity # existingInfo.energyCapacity
        \/ Cardinality(testInfo.relevantModSeasons)
             # Cardinality(existingInfo.relevantModSeasons)
  IN IF ~betterOrEqual THEN FALSE ELSE isDifferent

\* Mutant of isStrictlyBetter: an equal item counts as better.
isBetterOrEqual(testItem, existingItem) ==
  LET testInfo == cache(testItem)
      existingInfo == cache(existingItem)
  IN /\ \A idx \in 1..NStats : testInfo.stats[idx] >= existingInfo.stats[idx]
     /\ testInfo.energyCapacity >= existingInfo.energyCapacity
     /\ (items[testItem].isArtifice \/ ~existingInfo.isArtifice)
     /\ isSuperset(testInfo.relevantModSeasons, existingInfo.relevantModSeasons)

\* isStrictlyBetter(testItem, existingItem)
isStrictlyBetter(testItem, existingItem) ==
  LET testInfo == cache(testItem)
      existingInfo == cache(existingItem)
      betterOrEqual ==
        /\ \A idx \in 1..NStats : testInfo.stats[idx] >= existingInfo.stats[idx]
        /\ testInfo.energyCapacity >= existingInfo.energyCapacity
        /\ (items[testItem].isArtifice \/ ~existingInfo.isArtifice)
        /\ isSuperset(testInfo.relevantModSeasons, existingInfo.relevantModSeasons)
      isDifferent ==
        \/ \E idx \in 1..NStats : testInfo.stats[idx] # existingInfo.stats[idx]
        \/ testInfo.energyCapacity # existingInfo.energyCapacity
        \/ testInfo.isArtifice # existingInfo.isArtifice
        \/ Cardinality(testInfo.relevantModSeasons)
             # Cardinality(existingInfo.relevantModSeasons)
  IN IF ~betterOrEqual THEN FALSE ELSE isDifferent

\* keepSet.splice(idx, 1)
Splice(s, idx) == SubSeq(s, 1, idx - 1) \o SubSeq(s, idx + 1, Len(s))

\* Mutant of pruneItem: kept items that the new item dominates are not removed.
pruneItemNoSplice(keep, item) ==
  IF \E k \in 1..Len(keep) : isStrictlyBetter(keep[k], item)
  THEN keep ELSE Append(keep, item)

\* Mutant of pruneScan: the scan stops after the last kept item.
pruneScanLastOnly(keep, item, idx) ==
  IF idx = 0 THEN [keep |-> keep, dominated |-> FALSE]
  ELSE IF isStrictlyBetter(keep[idx], item) THEN [keep |-> keep, dominated |-> TRUE]
  ELSE IF isStrictlyBetter(item, keep[idx])
       THEN [keep |-> Splice(keep, idx), dominated |-> FALSE]
  ELSE [keep |-> keep, dominated |-> FALSE]

RECURSIVE pruneScan(_, _, _)
\* the inner loop of the pruning loop: for (idx = keepSet.length - 1; idx >= 0; idx--)
pruneScan(keep, item, idx) ==
  IF idx = 0 THEN [keep |-> keep, dominated |-> FALSE]
  ELSE IF isStrictlyBetter(keep[idx], item) THEN [keep |-> keep, dominated |-> TRUE]
  ELSE IF isStrictlyBetter(item, keep[idx]) THEN pruneScan(Splice(keep, idx), item, idx - 1)
  ELSE pruneScan(keep, item, idx - 1)

\* one iteration of "for (const item of group)"
pruneItem(keep, item) ==
  LET r == pruneScan(keep, item, Len(keep))
  IN IF r.dominated THEN r.keep ELSE Append(r.keep, item)

\* groupComparator: a negative, zero or positive number as a sorts before b
BoolRank(b) == IF b THEN 1 ELSE 0
Cmp(x, y) == IF x < y THEN -1 ELSE IF x > y THEN 1 ELSE 0
\* Mutant of groupComparator: vendor items are preferred over owned items.
groupComparatorVendorFirst(a, b) ==
  LET da == items[a].dim
      db == items[b].dim
      c1 == Cmp(-da.dimEnergy, -db.dimEnergy)
      c2 == Cmp(BoolRank(~da.vendor), BoolRank(~db.vendor))
      c3 == Cmp(BoolRank(~da.favorite), BoolRank(~db.favorite))
      c4 == Cmp(-da.power, -db.power)
      c5 == Cmp(IF da.equipped THEN 0 ELSE 1, IF db.equipped THEN 0 ELSE 1)
  IN IF c1 # 0 THEN c1 ELSE IF c2 # 0 THEN c2 ELSE IF c3 # 0 THEN c3
     ELSE IF c4 # 0 THEN c4 ELSE c5

groupComparator(a, b) ==
  LET da == items[a].dim
      db == items[b].dim
      c1 == Cmp(-da.dimEnergy, -db.dimEnergy)
      c2 == Cmp(BoolRank(da.vendor), BoolRank(db.vendor))
      c3 == Cmp(BoolRank(~da.favorite), BoolRank(~db.favorite))
      c4 == Cmp(-da.power, -db.power)
      c5 == Cmp(IF da.equipped THEN 0 ELSE 1, IF db.equipped THEN 0 ELSE 1)
  IN IF c1 # 0 THEN c1 ELSE IF c2 # 0 THEN c2 ELSE IF c3 # 0 THEN c3
     ELSE IF c4 # 0 THEN c4 ELSE c5

RECURSIVE InsertSorted(_, _)
InsertSorted(s, x) ==
  IF s = <<>> THEN <<x>>
  ELSE IF groupComparator(x, Head(s)) < 0 THEN <<x>> \o s
  ELSE <<Head(s)>> \o InsertSorted(Tail(s), x)

RECURSIVE sortGroup(_)
\* group.sort(groupComparator(getUserItemTag)): Array.prototype.sort is stable
sortGroup(s) ==
  IF s = <<>> THEN <<>>
  ELSE InsertSorted(sortGroup(SubSeq(s, 1, Len(s) - 1)), s[Len(s)])

\* Mutant of groupByEverything: a group holds its representative only.
groupByEverythingFirstOnly(keep) ==
  LET keys == DistinctKeys([k \in 1..Len(keep) |-> finalGroupingFn(keep[k])], {})
  IN [g \in 1..Len(keys) |->
        LET group == sortGroup(SelectSeq(keep, LAMBDA i : finalGroupingFn(i) = keys[g]))
        IN [canonicalProcessItem |-> group[1], items |-> <<group[1]>>]]

\* Map.groupBy(keepSet, finalGroupingFn), each group sorted and turned into an ItemGroup
groupByEverything(keep) ==
  LET keys == DistinctKeys([k \in 1..Len(keep) |-> finalGroupingFn(keep[k])], {})
  IN [g \in 1..Len(keys) |->
        LET group == sortGroup(SelectSeq(keep, LAMBDA i : finalGroupingFn(i) = keys[g]))
        IN [canonicalProcessItem |-> group[1], items |-> group]]

\* runProcess: processItems[bucketHash], the representatives sent to the worker
\* (their ids, in the order they are pushed).
processItems == [g \in 1..Len(groups) |-> groups[g].canonicalProcessItem]

\* Mutant of itemsById: the map is keyed by the item hash instead of the item id.
itemsByHash ==
  [h \in {items[groups[g].canonicalProcessItem].hash : g \in 1..Len(groups)} |->
     LET last == CHOOSE g \in 1..Len(groups) :
                   /\ items[groups[g].canonicalProcessItem].hash = h
                   /\ \A g2 \in 1..Len(groups) :
                        items[groups[g2].canonicalProcessItem].hash = h => g2 <= g
     IN groups[last]]

\* runProcess: itemsById, filled by itemsById.set(group.canonicalProcessItem.id, group)
\* for each group in turn (a later set of the same key replaces the earlier one).
itemsById ==
  [id \in {groups[g].canonicalProcessItem : g \in 1..Len(groups)} |->
     LET last == CHOOSE g \in 1..Len(groups) :
                   /\ groups[g].canonicalProcessItem = id
                   /\ \A g2 \in 1..Len(groups) :
                        groups[g2].canonicalProcessItem = id => g2 <= g
     IN groups[last]]

\* One iteration of the pruning loop over the current first-pass group.
PruneStep ==
  /\ pc = "prune"
  /\ itemIdx <= Len(energyGroups[bucketIdx])
  /\ keepSet' = pruneItem(keepSet, energyGroups[bucketIdx][itemIdx])
  /\ itemIdx' = itemIdx + 1
  /\ UNCHANGED <<items, requiredModTags, pc, bucketIdx, groups, dispVars, loadoutVars, touchVars>>

\* The pruning loop of the current group is over: group what was kept, sort
\* each group, push the ItemGroups, and go on with the next first-pass group.
GroupStep ==
  /\ pc = "prune"
  /\ itemIdx > Len(energyGroups[bucketIdx])
  /\ groups' = groups \o groupByEverything(keepSet)
  /\ keepSet' = <<>>
  /\ itemIdx' = 1
  /\ bucketIdx' = bucketIdx + 1
  /\ pc' = IF bucketIdx = Len(energyGroups) THEN "done" ELSE "prune"
  /\ UNCHANGED <<items, requiredModTags, dispVars, loadoutVars, touchVars>>

\* mapItemsToGroups is not running
GroupsIdle ==
  /\ items = <<>>
  /\ requiredModTags = {}
  /\ pc = "idle"
  /\ bucketIdx = 1
  /\ itemIdx = 1
  /\ keepSet = <<>>
  /\ groups = <<>>

\* mapItemsToGroups is entered with some items of the given universe and some
\* activity mods
GroupsInitOver(universe, modTagChoices) ==
  /\ \E n \in 0..MaxItems : items \in [1..n -> universe]
  /\ requiredModTags \in modTagChoices
  /\ pc = IF Len(items) = 0 THEN "done" ELSE "prune"
  /\ bucketIdx = 1
  /\ itemIdx = 1
  /\ keepSet = <<>>
  /\ groups = <<>>

GroupsInit == GroupsInitOver(MappedItems, SUBSET Tags)

\* ------------------------------------------------------------------------
\* addItem (loadout-drawer-reducer)
\* ------------------------------------------------------------------------
\* The capacity of a bucket of a loadout.
BucketCapacity == 10

\* The items of the inventory: more kinetic weapons than a bucket holds, an
\* item of another bucket, and an item that cannot be in a loadout. The
\* kinetic weapons are numbered in the order in which they are first added.
KineticWeapons == 1..(BucketCapacity + 1)
OtherItems == {BucketCapacity + 2}
LoadoutItemIds == KineticWeapons \cup OtherItems
invalidItem == 0

bucketHash(id) == IF id \in KineticWeapons THEN "KineticWeapons" ELSE "Other"

BucketHashes == {"KineticWeapons", "Other"}

\* The equip argument of addItem: left out, true or false.
EquipArgs == {"unset", "true", "false"}

emptyLoadout == <<>>

\* No call of addItem yet.
NoAdd == [item |-> -1, equip |-> "unset", before |-> emptyLoadout]

\* The entries of the loadout that are in a bucket
loadoutItemsInBucket(l, b) == SelectSeq(l, LAMBDA e : bucketHash(e.id) = b)

\* Mutant of findDupe: the item is never found in the loadout.
findDupeNever(l, item) == {}

\* The positions of the entries of an item in the loadout
findDupe(l, item) == {k \in 1..Len(l) : l[k].id = item}

\* Mutant of hasRoom: the bucket takes one item more than its capacity.
hasRoomOneMore(typeInventory) == Len(typeInventory) <= BucketCapacity

\* The bucket is not at capacity.
hasRoom(typeInventory) == Len(typeInventory) < BucketCapacity

\* Mutant of unequipBucket: the equipped item stays equipped.
unequipBucketForgotten(l, b) == l

\* Every item of the bucket is marked as not equipped.
unequipBucket(l, b) ==
  [k \in 1..Len(l) |->
     IF bucketHash(l[k].id) = b THEN [l[k] EXCEPT !.equip = FALSE] ELSE l[k]]

\* addItem(defs, item, equip)(loadout): loadout.items afterwards. equipment
\* tells whether the item is equipped by default when nothing else is.
addItem(l, item, equip, equipment) ==
  IF item = invalidItem THEN l
  ELSE
    LET b == bucketHash(item)
        typeInventory == loadoutItemsInBucket(l, b)
        dupe == findDupe(l, item)
    IN IF dupe = {}
       THEN IF ~hasRoom(typeInventory) THEN l
            ELSE LET eq == IF equip = "unset"
                           THEN /\ equipment
                                /\ \A k \in 1..Len(typeInventory) : ~typeInventory[k].equip
                           ELSE equip = "true"
                 IN Append(IF eq THEN unequipBucket(l, b) ELSE l,
                           [id |-> item, equip |-> eq])
       ELSE IF equip = "unset" \/ \A k \in dupe : l[k].equip = (equip = "true") THEN l
       ELSE LET eq == equip = "true"
                others == IF eq THEN unequipBucket(l, b) ELSE l
            IN [k \in 1..Len(l) |->
                  IF k \in dupe THEN [others[k] EXCEPT !.equip = eq] ELSE others[k]]

\* One call of addItem: of an item of the loadout, of the next item of a
\* bucket that is not in the loadout yet, or of the invalid item.
AddItem ==
  /\ \E item \in LoadoutItemIds \cup {invalidItem}, equip \in EquipArgs, equipment \in BOOLEAN :
       /\ \A other \in LoadoutItemIds :
            (other < item /\ bucketHash(other) = bucketHash(item))
              => findDupe(loadout, other) # {}
       /\ loadout' = addItem(loadout, item, equip, equipment)
       /\ lastAdd' = [item |-> item, equip |-> equip, before |-> loadout]
  /\ UNCHANGED <<dispVars, groupVars, touchVars>>

LoadoutInit ==
  /\ loadout = emptyLoadout
  /\ lastAdd = NoAdd

\* ------------------------------------------------------------------------
\* StoreInventoryItem: long press
\* ------------------------------------------------------------------------
LONGPRESS_TIMEOUT == 200

TimerIds == 1..MaxTimers

TouchTypes == {"touchstart", "touchmove", "touchend", "touchcancel"}

\* The state the component's handlers read and write.
TouchState ==
  [longPressed |-> longPressed, timer |-> timer, pending |-> pending,
   nextTimer |-> nextTimer, mobileInspect |-> mobileInspect, dragGhost |-> dragGhost]

\* Mutant of resetInspect: the timeout of timer.current is not cleared.
resetInspectKeepsTimer(t) ==
  [t EXCEPT !.mobileInspect = FALSE,
            !.dragGhost = FALSE,
            !.longPressed = FALSE]

\* resetInspect
resetInspect(t) ==
  [t EXCEPT !.mobileInspect = FALSE,
            !.dragGhost = FALSE,
            !.pending = t.pending \ {t.timer},
            !.longPressed = FALSE]

\* onTouch(e), e.type = type
onTouch(t, type) ==
  IF loadoutDialogOpen \/ compareDialogOpen THEN t
  ELSE IF t.longPressed /\ type = "touchmove"
       THEN IF ~isPhonePortrait THEN [t EXCEPT !.dragGhost = TRUE] ELSE t
  ELSE IF type # "touchstart" THEN resetInspect(t)
  ELSE LET r == resetInspect(t)
       IN [r EXCEPT !.timer = r.nextTimer,
                    !.pending = r.pending \cup {r.nextTimer},
                    !.nextTimer = r.nextTimer + 1]

\* The callback of the long-press timer
timerCallback(t, id) ==
  [t EXCEPT !.pending = t.pending \ {id},
            !.longPressed = TRUE,
            !.mobileInspect = IF isPhonePortrait THEN TRUE ELSE t.mobileInspect]

SetTouchState(t) ==
  /\ longPressed' = t.longPressed
  /\ timer' = t.timer
  /\ pending' = t.pending
  /\ nextTimer' = t.nextTimer
  /\ mobileInspect' = t.mobileInspect
  /\ dragGhost' = t.dragGhost

\* A finger goes down on the item.
TouchStart ==
  /\ nextTimer <= MaxTimers
  /\ SetTouchState(onTouch(TouchState, "touchstart"))
  /\ touching' = TRUE
  /\ touchTimer' = IF nextTimer' # nextTimer THEN timer' ELSE 0
  /\ UNCHANGED <<loadoutDialogOpen, compareDialogOpen, isPhonePortrait, aborted, fired,
                 inspectBy, dispVars, groupVars, loadoutVars>>

\* The finger of the touch in progress moves.
TouchMove ==
  /\ touching
  /\ SetTouchState(onTouch(TouchState, "touchmove"))
  /\ aborted' = aborted \cup ({touchTimer} \cap pending)
  /\ UNCHANGED <<loadoutDialogOpen, compareDialogOpen, isPhonePortrait, touching, touchTimer,
                 fired, inspectBy, dispVars, groupVars, loadoutVars>>

\* The touch in progress ends (touchend) or is cancelled (touchcancel).
TouchEndOrCancel ==
  /\ touching
  /\ \E type \in {"touchend", "touchcancel"} :
       SetTouchState(onTouch(TouchState, type))
  /\ aborted' = aborted \cup ({touchTimer} \cap pending)
  /\ touching' = FALSE
  /\ touchTimer' = 0
  /\ UNCHANGED <<loadoutDialogOpen, compareDialogOpen, isPhonePortrait, fired,
                 inspectBy, dispVars, groupVars, loadoutVars>>

\* LONGPRESS_TIMEOUT ms after it was set, a timeout that was not cleared fires.
TimerFires ==
  /\ \E id \in pending :
       /\ SetTouchState(timerCallback(TouchState, id))
       /\ fired' = fired \cup {id}
       /\ inspectBy' = IF isPhonePortrait THEN inspectBy \cup {id} ELSE inspectBy
  /\ UNCHANGED <<loadoutDialogOpen, compareDialogOpen, isPhonePortrait, touching,
                 touchTimer, aborted, dispVars, groupVars, loadoutVars>>

\* The loadout dialog opens or closes.
LoadoutDialogToggles ==
  /\ loadoutDialogOpen' = ~loadoutDialogOpen
  /\ UNCHANGED <<longPressed, timer, pending, nextTimer, mobileInspect, dragGhost,
                 compareDialogOpen, isPhonePortrait, touching, touchTimer, aborted,
                 fired, inspectBy, dispVars, groupVars, loadoutVars>>

\* The compare dialog opens or closes.
CompareDialogToggles ==
  /\ compareDialogOpen' = ~compareDialogOpen
  /\ UNCHANGED <<longPressed, timer, pending, nextTimer, mobileInspect, dragGhost,
                 loadoutDialogOpen, isPhonePortrait, touching, touchTimer, aborted,
                 fired, inspectBy, dispVars, groupVars, loadoutVars>>

TouchInitOn(portrait) ==
  /\ longPressed = FALSE
  /\ timer = 0
  /\ pending = {}
  /\ nextTimer = 1
  /\ mobileInspect = FALSE
  /\ dragGhost = FALSE
  /\ loadoutDialogOpen = FALSE
  /\ compareDialogOpen = FALSE
  /\ isPhonePortrait \in portrait
  /\ touching = FALSE
  /\ touchTimer = 0
  /\ aborted = {}
  /\ fired = {}
  /\ inspectBy = {}

TouchIdle == TouchInitOn({FALSE})

\* The component is mounted, on a phone in portrait or not.
TouchInit == TouchInitOn(BOOLEAN)

\* ------------------------------------------------------------------------
\* Specifications
\* ------------------------------------------------------------------------
Init == DispInit /\ GroupsIdle /\ LoadoutInit /\ TouchIdle

Next ==
  \/ CallerDispatch
  \/ \E d \in DispatchIds : CallerCleanup(d)
  \/ \E d \in DispatchIds : WorkerReturn(d)
  \/ \E d \in DispatchIds : WorkerThrow(d)
  \/ \E d \in DispatchIds : DeliverResponse(d)
  \/ \E d \in DispatchIds : DropResponse(d)
  \/ \E d \in DispatchIds : ThenHandler(d)
  \/ \E d \in DispatchIds : ThenRejected(d)
  \/ \E d \in DispatchIds : FinallyHandler(d)

Spec == Init /\ [][Next]_vars

\* The event loop delivers queued messages and runs queued promise reactions.
SpecFair ==
  /\ Spec
  /\ \A d \in DispatchIds :
       /\ WF_vars(DeliverResponse(d))
       /\ WF_vars(ThenHandler(d))
       /\ WF_vars(ThenRejected(d))
       /\ WF_vars(FinallyHandler(d))

InitGroups == DispInit /\ GroupsInit /\ LoadoutInit /\ TouchIdle

NextGroups == PruneStep \/ GroupStep

SpecGroups == InitGroups /\ [][NextGroups]_vars

\* mapItemsToGroups on legendaries and several exotics
InitExotics ==
  DispInit /\ GroupsInitOver(ExoticMappedItems, SUBSET Tags) /\ LoadoutInit /\ TouchIdle

SpecExotics == InitExotics /\ [][NextGroups]_vars

\* mapItemsToGroups on items that differ in what the comparator reads
InitSort ==
  DispInit /\ GroupsInitOver(SortMappedItems, {Tags}) /\ LoadoutInit /\ TouchIdle

SpecSort == InitSort /\ [][NextGroups]_vars

\* A sequence of addItem calls on an empty loadout
InitLoadout == DispInit /\ GroupsIdle /\ LoadoutInit /\ TouchIdle

NextLoadout == AddItem

SpecLoadout == InitLoadout /\ [][NextLoadout]_vars

\* Touch events, timer callbacks and dialogs of one StoreInventoryItem
InitTouch == DispInit /\ GroupsIdle /\ LoadoutInit /\ TouchInit

NextTouch ==
  \/ TouchStart
  \/ TouchMove
  \/ TouchEndOrCancel
  \/ TimerFires
  \/ LoadoutDialogToggles
  \/ CompareDialogToggles

SpecTouch == InitTouch /\ [][NextTouch]_vars


\* ------------------------------------------------------------------------
\* Properties of the dispatcher
\* ------------------------------------------------------------------------
\* Neither the worker nor the event loop has anything left to do for dispatch d.
DispatchAtRest(d) ==
  /\ disp[d].instance # "none"
  /\ ~ENABLED (\/ WorkerReturn(d) \/ WorkerThrow(d)
               \/ DeliverResponse(d) \/ DropResponse(d)
               \/ ThenHandler(d) \/ ThenRejected(d) \/ FinallyHandler(d))

\* C1: when the caller has invoked cleanup() before the worker completed, the
\* resultPromise of that dispatch settles: once the worker and the event loop
\* have nothing left to do for the dispatch, the promise is no longer pending.
C1_CancelSettles ==
  \A d \in DispatchIds :
    (disp[d].cancelledEarly /\ DispatchAtRest(d)) => disp[d].resultPromise # "pending"

\* C2: when worker.process fails, the resultPromise is rejected: once the
\* rejection has run through the promise chain, resultPromise is "rejected".
C2_FailureRejects ==
  \A d \in DispatchIds :
    (disp[d].proc = "rejected" /\ DispatchAtRest(d)) => disp[d].resultPromise = "rejected"

\* What a cleanup() call can act on: the worker, the reference and the promises.
CleanupVisible(r) ==
  <<r.instance, r.job, r.response, r.proc, r.thenP, r.cleanupRef, r.resultPromise,
    r.released>>

\* C3: cleanup() is idempotent: in every step the worker of a dispatch has been
\* released (releaseProxy + terminate) at most once, and a cleanup() call that
\* is not the first one of its dispatch changes nothing.
C3_CleanupIdempotent ==
  [][\A d \in DispatchIds :
       /\ disp'[d].released <= 1
       /\ (disp[d].cleanupCalls >= 1 /\ disp'[d].cleanupCalls > disp[d].cleanupCalls)
            => CleanupVisible(disp'[d]) = CleanupVisible(disp[d])]_vars

\* The caller and the completion handler have both called cleanup() on a dispatch.
C3_Witness ==
  \E d \in DispatchIds :
    /\ disp[d].callerCalls >= 1
    /\ disp[d].finallyRan
    /\ disp[d].cleanupCalls >= 3
    /\ disp[d].released = 1

\* C4: every dispatch whose worker call completed, successfully or not, gets
\* its worker terminated, exactly once, also when the caller never calls
\* cleanup().
C4_CompletedWorkerTerminated ==
  /\ [](\A d \in DispatchIds : disp[d].released <= 1)
  /\ \A d \in DispatchIds :
       (disp[d].job = "done") ~> (disp[d].instance = "terminated" /\ disp[d].released = 1)

\* A failed worker call was cleaned up by the completion handler alone.
C4_Witness ==
  \E d \in DispatchIds :
    /\ disp[d].proc = "rejected"
    /\ disp[d].callerCalls = 0
    /\ disp[d].instance = "terminated"
    /\ disp[d].released = 1

\* C5: the resultPromise of a dispatch settles exactly once: never more than
\* once, resolved only after worker.process has fulfilled, and settled once
\* the worker and the event loop have nothing left to do for the dispatch.
C5_SettlesExactlyOnce ==
  \A d \in DispatchIds :
    /\ disp[d].settles <= 1
    /\ disp[d].resultPromise = "resolved" => disp[d].proc = "fulfilled"
    /\ DispatchAtRest(d) => disp[d].settles = 1

SameBucket(a, b) ==
  /\ items[a].isExotic = items[b].isExotic
  /\ items[a].isExotic => items[a].hash = items[b].hash

\* The mod tags of item a that matter for the required mods.
RelevantTags(a) == items[a].compat \cap requiredModTags

\* a dominates b: at least as good on every axis, strictly better on one.
Dominates(a, b) ==
  /\ \A k \in StatHashes : items[a].stats[k] >= items[b].stats[k]
  /\ items[a].energy >= items[b].energy
  /\ items[b].isArtifice => items[a].isArtifice
  /\ RelevantTags(b) \subseteq RelevantTags(a)
  /\ \/ \E k \in StatHashes : items[a].stats[k] > items[b].stats[k]
     \/ items[a].energy > items[b].energy
     \/ items[a].isArtifice /\ ~items[b].isArtifice
     \/ RelevantTags(a) # RelevantTags(b)

\* The items that are members of some output group.
OutputItems == UNION {Range(groups[g].items) : g \in 1..Len(groups)}

\* C7: when mapItemsToGroups returns, an item dominated by another item of
\* its bucket is in no output group.
C7_DominatedNotInOutput ==
  pc = "done" =>
    \A a, b \in ItemIds :
      (SameBucket(a, b) /\ Dominates(a, b)) => b \notin OutputItems

\* B comes before A in the input, A dominates B, and A itself is pruned by C.
C7_Witness ==
  /\ pc = "done"
  /\ \E a, b, c \in ItemIds :
       /\ b < a
       /\ SameBucket(a, b) /\ SameBucket(c, a)
       /\ Dominates(a, b) /\ Dominates(c, a)
       /\ a \notin OutputItems /\ b \notin OutputItems

\* C8: the kept set is an antichain after every iteration of the pruning
\* loop, and so are the members of the output groups of one bucket.
C8_KeptIsAntichain ==
  /\ \A x, y \in Range(keepSet) : ~Dominates(x, y)
  /\ \A x, y \in OutputItems : SameBucket(x, y) => ~Dominates(x, y)

\* Two items are kept after an iteration that removed a kept item.
C8_Witness ==
  /\ pc = "prune"
  /\ Len(keepSet) >= 2
  /\ itemIdx = 4
  /\ energyGroups[bucketIdx][1] \notin Range(keepSet)
  /\ energyGroups[bucketIdx][2] \in Range(keepSet)

\* The number of output groups item i is a member of.
GroupsHolding(i) == Cardinality({g \in 1..Len(groups) : i \in Range(groups[g].items)})

\* C9: no item is lost: when mapItemsToGroups returns, every input item is a
\* member of exactly one output group, or is dominated by an item of its own
\* bucket that is a member of an output group.
C9_NoItemLost ==
  pc = "done" =>
    \A i \in ItemIds :
      \/ GroupsHolding(i) = 1
      \/ /\ GroupsHolding(i) = 0
         /\ \E j \in OutputItems : SameBucket(j, i) /\ Dominates(j, i)

\* An item was discarded, and an item survives although an item of another
\* bucket is better on every axis.
C9_Witness ==
  /\ pc = "done"
  /\ \E i \in ItemIds : i \notin OutputItems
  /\ \E x, y \in ItemIds : ~SameBucket(x, y) /\ Dominates(x, y) /\ y \in OutputItems

\* C10: the groups built from a pruned bucket are non-empty, pairwise
\* disjoint and without duplicates, and their members are exactly the items
\* that survived the pruning of that bucket; earlier groups stay as they are.
C10_GroupingPartition ==
  [][bucketIdx' # bucketIdx =>
       LET old == Len(groups)
           all == Len(groups')
       IN /\ SubSeq(groups', 1, old) = groups
          /\ \A g \in 1..all :
               /\ groups'[g].items # <<>>
               /\ Cardinality(Range(groups'[g].items)) = Len(groups'[g].items)
          /\ \A g, h \in 1..all :
               g # h => Range(groups'[g].items) \cap Range(groups'[h].items) = {}
          /\ UNION {Range(groups'[g].items) : g \in (old + 1)..all} = Range(keepSet)]_vars

\* Several groups came out, one of them with several members.
C10_Witness ==
  /\ pc = "done"
  /\ Len(groups) >= 2
  /\ \E g \in 1..Len(groups) : Len(groups[g].items) >= 2

\* C11: any two members of an output group agree on the constrained stats, the
\* energy capacity, the artifice flag and the relevant mod tags.
C11_Interchangeable ==
  \A g \in 1..Len(groups) :
    \A a, b \in Range(groups[g].items) :
      /\ \A k \in StatHashes : items[a].stats[k] = items[b].stats[k]
      /\ items[a].energy = items[b].energy
      /\ items[a].isArtifice = items[b].isArtifice
      /\ RelevantTags(a) = RelevantTags(b)

\* A group has two members, and the bucket held an artifice item and an item
\* without artifice that have the same grouping key.
C11_Witness ==
  /\ pc = "done"
  /\ \E g \in 1..Len(groups) : Len(groups[g].items) >= 2
  /\ \E a, b \in ItemIds :
       /\ SameBucket(a, b)
       /\ finalGroupingFn(a) = finalGroupingFn(b)
       /\ items[a].isArtifice /\ ~items[b].isArtifice

\* C13: when mapItemsToGroups has returned, every id sent to the worker is a
\* key of itemsById, and it maps to the group the id was sent for, whose
\* representative is the item with that id.
C13_HydrationRoundTrip ==
  pc = "done" =>
    \A k \in 1..Len(processItems) :
      /\ processItems[k] \in DOMAIN itemsById
      /\ itemsById[processItems[k]] = groups[k]
      /\ itemsById[processItems[k]].canonicalProcessItem = processItems[k]

\* Several representatives were sent, one of them standing for several items.
C13_Witness ==
  /\ pc = "done"
  /\ Len(processItems) >= 2
  /\ \E k \in 1..Len(processItems) : Len(itemsById[processItems[k]].items) >= 2

\* The items of the bucket being processed.
CurrentBucket == Range(energyGroups[bucketIdx])

\* C17: when the pruning loop of a bucket ends, the kept items are the items
\* of the bucket that no item of the bucket dominates, whatever the order in
\* which the items came in.
C17_KeptIsUndominatedSet ==
  (pc = "prune" /\ itemIdx > Len(energyGroups[bucketIdx])) =>
    Range(keepSet) =
      {i \in CurrentBucket : ~\E j \in CurrentBucket : Dominates(j, i)}

\* A bucket of three items was pruned; one item came before an item that
\* dominates it, another one after an item that dominates it.
C17_Witness ==
  /\ pc = "prune"
  /\ itemIdx = 4
  /\ \E i, j \in CurrentBucket : i < j /\ Dominates(j, i)
  /\ \E i, j \in CurrentBucket : i > j /\ Dominates(j, i)

\* Items a and b are equal on every axis isStrictlyBetter looks at.
EqualOnEveryAxis(a, b) ==
  /\ \A k \in StatHashes : items[a].stats[k] = items[b].stats[k]
  /\ items[a].energy = items[b].energy
  /\ items[a].isArtifice = items[b].isArtifice
  /\ RelevantTags(a) = RelevantTags(b)

\* C18: isStrictlyBetter is a strict partial order on the items of a bucket:
\* irreflexive (items equal on every axis do not dominate each other),
\* asymmetric and transitive, for the items of every run.
C18_StrictPartialOrder ==
  pc = "done" =>
    \A a, b \in ItemIds :
      SameBucket(a, b) =>
        /\ ~isStrictlyBetter(a, a)
        /\ EqualOnEveryAxis(a, b) => ~isStrictlyBetter(a, b)
        /\ isStrictlyBetter(a, b) =>
             /\ ~isStrictlyBetter(b, a)
             /\ \A c \in ItemIds :
                  (SameBucket(b, c) /\ isStrictlyBetter(b, c)) => isStrictlyBetter(a, c)

\* The bucket holds a chain of three items.
C18_Witness ==
  /\ pc = "done"
  /\ \E a, b, c \in ItemIds :
       /\ SameBucket(a, b) /\ SameBucket(b, c)
       /\ isStrictlyBetter(a, b) /\ isStrictlyBetter(b, c)

\* C12: exotics are never merged: two members of an output group are both
\* legendary, or both exotic with the same hash.
C12_ExoticsNotMerged ==
  \A g \in 1..Len(groups) :
    \A a, b \in Range(groups[g].items) :
      /\ items[a].isExotic = items[b].isExotic
      /\ items[a].isExotic => items[a].hash = items[b].hash

\* Two different exotics and a legendary that are equal on every axis all
\* came out.
C12_Witness ==
  /\ pc = "done"
  /\ \E a, b, c \in OutputItems :
       /\ items[a].isExotic /\ items[b].isExotic /\ ~items[c].isExotic
       /\ items[a].hash # items[b].hash
       /\ EqualOnEveryAxis(a, b) /\ EqualOnEveryAxis(b, c)

\* Item x comes strictly before item y in the tie-break order: higher energy
\* capacity, then owned over vendor, then favorite, then higher power, then
\* equipped.
StrictlyPrecedes(x, y) ==
  LET dx == items[x].dim
      dy == items[y].dim
  IN \/ dx.dimEnergy > dy.dimEnergy
     \/ /\ dx.dimEnergy = dy.dimEnergy
        /\ \/ ~dx.vendor /\ dy.vendor
           \/ /\ dx.vendor = dy.vendor
              /\ \/ dx.favorite /\ ~dy.favorite
                 \/ /\ dx.favorite = dy.favorite
                    /\ \/ dx.power > dy.power
                       \/ dx.power = dy.power /\ dx.equipped /\ ~dy.equipped

\* C19: in every output group the representative is the first member, and the
\* members are in tie-break order: no member strictly precedes a member
\* listed before it, so none strictly precedes the representative.
C19_GroupSorted ==
  \A g \in 1..Len(groups) :
    LET m == groups[g].items
    IN /\ groups[g].canonicalProcessItem = m[1]
       /\ \A i, j \in 1..Len(m) : i < j => ~StrictlyPrecedes(m[j], m[i])

\* A group of three whose order is not the input order, with a vendor item
\* that came in before an owned item equal to it in everything else.
C19_Witness ==
  /\ pc = "done"
  /\ \E g \in 1..Len(groups) :
       LET m == groups[g].items
       IN /\ Len(m) = 3
          /\ m[1] # 1
          /\ \E i, j \in 1..3 :
               /\ m[i] > m[j] /\ i < j
               /\ ~items[m[i]].dim.vendor /\ items[m[j]].dim.vendor
               /\ [items[m[j]].dim EXCEPT !.vendor = FALSE] = items[m[i]].dim

\* The positions of the equipped entries of a bucket
EquippedIn(l, b) == {k \in 1..Len(l) : bucketHash(l[k].id) = b /\ l[k].equip}

\* The positions of the entries of an item
Positions(l, id) == {k \in 1..Len(l) : l[k].id = id}

C15_BucketCapacity ==
  /\ \A b \in BucketHashes : Len(loadoutItemsInBucket(loadout, b)) <= BucketCapacity
  /\ (/\ lastAdd.item \in LoadoutItemIds
      /\ Positions(lastAdd.before, lastAdd.item) = {}
      /\ Len(loadoutItemsInBucket(lastAdd.before, bucketHash(lastAdd.item)))
           = BucketCapacity)
       => loadout = lastAdd.before

\* An eleventh kinetic weapon was added to a loadout that holds ten.
C15_Witness ==
  /\ lastAdd.item = BucketCapacity + 1
  /\ Len(loadoutItemsInBucket(lastAdd.before, "KineticWeapons")) = BucketCapacity
  /\ Len(loadoutItemsInBucket(loadout, "KineticWeapons")) = BucketCapacity

\* The last call re-added an item of the loadout with equip set to true or
\* false, against the entry's equip state (differs) or in line with it.
ReAdded(differs) ==
  /\ lastAdd.item \in LoadoutItemIds
  /\ lastAdd.equip # "unset"
  /\ \E k \in Positions(lastAdd.before, lastAdd.item) :
       (lastAdd.before[k].equip # (lastAdd.equip = "true")) = differs

\* Each item id appears at most once, and re-adding an item with the equip
\* state it has changes nothing.
NoDuplicateAndSameIsNoop ==
  /\ \A id \in LoadoutItemIds : Cardinality(Positions(loadout, id)) <= 1
  /\ ReAdded(FALSE) => loadout = lastAdd.before

C20_AbortCancelsTimer ==
  \A id \in aborted : id \notin pending /\ id \notin fired /\ id \notin inspectBy

\* C21: at most one long-press timer is pending at any time, also after two
\* touchstart events in a row.
C21_OneTimerPending == Cardinality(pending) <= 1

\* A second touchstart came while the timer of the first was pending: the
\* first timer neither fired nor saw its touch move, end or be cancelled, and
\* only the second is pending.
C21_Witness ==
  /\ touching
  /\ timer = 2
  /\ pending = {2}
  /\ 1 \notin fired
  /\ 1 \notin aborted

====
